---------------------------- MODULE Spec2Model ----------------------------
(***************************************************************************)
(* zat: a command-line bridge between stdin/stdout and a zenoh session.    *)
(*                                                                         *)
(* src/src/utils.rs holds the command-line structure (CliArgs), the        *)
(* resolution of the arguments into Params (CliArgs::params) and the       *)
(* construction of the session configuration (CliArgs::config).  The       *)
(* main function and the two bridges (write: stdin -> publications, read:  *)
(* subscription -> stdout) are described in spec.md sections 4.3, 4.4, 5   *)
(* and 6 and are modelled from there.                                      *)
(*                                                                         *)
(* An Option<T> is a sequence of length at most one: <<>> is None and      *)
(* <<x>> is Some(x).  A string that the code inspects character by         *)
(* character (a key expression, a --cfg entry) is a sequence of tokens.    *)
(***************************************************************************)
EXTENDS Integers, Sequences, FiniteSets, TLC

VARIABLES
    pc,         \* position of the main function
    args,       \* the CliArgs value the command line produced (utils.rs:59-88)
    params,     \* the value of CliArgs::params (utils.rs:179-198)
    cfgargs,    \* the session options of CliArgs (utils.rs:64-87)
    config,     \* the value of CliArgs::config
    outcome,    \* "Running", "Clean" or the fatal condition that ended the run
    exitCode,   \* process exit status once pc = "exit"
    stderr,     \* messages reported to the user, in order
    sessionOps, \* calls made on the session collaborator, in order
    eof,        \* standard input has reached its end
    consumed,   \* bytes of standard input read so far
    buffer,     \* the reusable read buffer (the part ever written)
    nread,      \* byte count the last read returned
    reads,      \* number of read calls made on standard input
    readFailed, \* a read returned an I/O error
    pubCalls,   \* publish calls made: [offset, payload, qos, ok]
    events,     \* what the subscription delivered so far, in order
    subState,   \* Subscribe Bridge state
    stdout      \* bytes written to standard output

vars == <<pc, args, params, cfgargs, config, outcome, exitCode, stderr,
          sessionOps, eof, consumed, buffer, nread, reads, readFailed,
          pubCalls,
          events, subState, stdout>>

(***************************************************************************)
(* Bounds of the model.                                                    *)
(***************************************************************************)
MaxKeLen == 3      \* longest key expression, in characters
MaxInputLen == 3   \* longest standard input, in bytes
MaxBuffer == 2     \* largest explicit --buffer value
MaxEvents == 3     \* most deliveries of the subscription in one run
MaxCfg == 1        \* most --cfg entries on one command line

(***************************************************************************)
(* Helpers on sequences.                                                   *)
(***************************************************************************)
SeqsUpTo(S, n) == UNION {[1..k -> S] : k \in 0..n}

Min(a, b) == IF a < b THEN a ELSE b

RECURSIVE Concat(_)
Concat(ss) == IF ss = <<>> THEN <<>> ELSE Head(ss) \o Concat(Tail(ss))

IsSome(o) == Len(o) = 1
Unwrap(o) == o[1]

(***************************************************************************)
(* Key expressions: KeyExpr::try_from (utils.rs:97, 108).  A key           *)
(* expression is a non-empty sequence of chunks separated by "/"; no chunk *)
(* is empty; "*" and "**" are whole chunks; inside a chunk a star appears  *)
(* only as "$*"; "$" is always followed by "*"; "#" and "?" are forbidden; *)
(* the non-canonical forms "$*" alone, "$*$*", "**/**" and "**/*" are      *)
(* rejected.                                                               *)
(***************************************************************************)
KeChars == {"a", "/", "*", "$", "#"}

RECURSIVE SplitSlash(_)
SplitSlash(s) ==
    IF \A i \in 1..Len(s) : s[i] # "/" THEN <<s>>
    ELSE LET i == CHOOSE j \in 1..Len(s) :
                     s[j] = "/" /\ \A k \in 1..(j - 1) : s[k] # "/"
         IN <<SubSeq(s, 1, i - 1)>> \o SplitSlash(SubSeq(s, i + 1, Len(s)))

ChunkOk(c) ==
    /\ c # <<>>
    /\ \A i \in 1..Len(c) : c[i] # "#"
    /\ \/ c \in {<<"*">>, <<"*", "*">>}
       \/ /\ c # <<"$", "*">>
          /\ \A i \in 1..Len(c) :
               /\ c[i] = "*" => (i > 1 /\ c[i - 1] = "$")
               /\ c[i] = "$" => (i < Len(c) /\ c[i + 1] = "*")
               /\ (c[i] = "$" /\ i > 1) => c[i - 1] # "*"

KeyExprOk(s) ==
    LET cs == SplitSlash(s)
    IN /\ s # <<>>
       /\ \A i \in 1..Len(cs) : ChunkOk(cs[i])
       /\ \A i \in 1..(Len(cs) - 1) :
            cs[i] = <<"*", "*">> => cs[i + 1] \notin {<<"*">>, <<"*", "*">>}

(***************************************************************************)
(* QoS tokens and their values (utils.rs:109-128).                         *)
(***************************************************************************)
\* value_parser([...]) of the three options (utils.rs:30, 34, 38)
ReliabilityTokens == {"reliable", "besteffort"}
CongestionControlTokens == {"drop", "block"}
PriorityTokens == 1..7

PriorityNames == <<"RealTime", "InteractiveHigh", "InteractiveLow",
                   "DataHigh", "Data", "DataLow", "Background">>

PriorityLevel(p) == CHOOSE n \in 1..Len(PriorityNames) : PriorityNames[n] = p

\* Reliability::default(), CongestionControl::default(), Priority::default()
ReliabilityDefault == "Reliable"
CongestionControlDefault == "Drop"
PriorityDefault == "Data"

DefaultBuffer == 32768

\* a panic (a failed unwrap, unreachable!()): message on stderr, exit status 101
Err(kind) == [tag |-> "Panic", kind |-> kind]
IsErr(r) == r.tag = "Panic"

ResolveReliabilityLenient(o) ==
    IF IsSome(o) /\ Unwrap(o) = "reliable" THEN "Reliable"
    ELSE IF IsSome(o) /\ Unwrap(o) = "besteffort" THEN "BestEffort"
    ELSE ReliabilityDefault

\* reliability.as_ref().map(|s| match ...).unwrap_or_default()
ResolveReliability(o) ==
    IF ~IsSome(o) THEN ReliabilityDefault
    ELSE CASE Unwrap(o) = "reliable" -> "Reliable"
           [] Unwrap(o) = "besteffort" -> "BestEffort"
           [] OTHER -> "unreachable"

ResolveCongestionControlSwapped(o) ==
    IF ~IsSome(o) THEN CongestionControlDefault
    ELSE CASE Unwrap(o) = "drop" -> "Block"
           [] Unwrap(o) = "block" -> "Drop"
           [] OTHER -> "unreachable"

\* congestion_control.as_ref().map(|s| match ...).unwrap_or_default()
ResolveCongestionControl(o) ==
    IF ~IsSome(o) THEN CongestionControlDefault
    ELSE CASE Unwrap(o) = "drop" -> "Drop"
           [] Unwrap(o) = "block" -> "Block"
           [] OTHER -> "unreachable"

\* priority.as_ref().map(|s| Priority::try_from(*s).unwrap()).unwrap_or_default()
ResolvePriority(o) ==
    IF ~IsSome(o) THEN PriorityDefault
    ELSE IF Unwrap(o) \in 1..Len(PriorityNames) THEN PriorityNames[Unwrap(o)]
    ELSE "unreachable"

BufferArgIgnored(o) == DefaultBuffer

\* #[arg(short, long, default_value = "32768")] buffer: usize
BufferArg(o) == IF IsSome(o) THEN Unwrap(o) ELSE DefaultBuffer

(***************************************************************************)
(* CliArgs::params (utils.rs:91-133).  The fields of the struct expression *)
(* are evaluated in the order written, so the key expression is checked    *)
(* first, then reliability, congestion control and priority; the first     *)
(* unwrap or unreachable!() that fails panics and ends the process.        *)
(***************************************************************************)
ReadParamsFlagFlipped(a) ==
    IF ~KeyExprOk(a.keyexpr) THEN Err("ValidationError")
    ELSE [tag |-> "Read", keyexpr |-> a.keyexpr, ignore_eof |-> ~a.ignore_eof]

ReadParamsUnchecked(a) ==
    [tag |-> "Read", keyexpr |-> a.keyexpr, ignore_eof |-> a.ignore_eof]

ReadParams(a) ==
    IF ~KeyExprOk(a.keyexpr) THEN Err("ValidationError")
    ELSE [tag |-> "Read", keyexpr |-> a.keyexpr, ignore_eof |-> a.ignore_eof]

WriteParams(a) ==
    LET r == ResolveReliability(a.reliability)
        c == ResolveCongestionControl(a.congestion_control)
        p == ResolvePriority(a.priority)
    IN IF ~KeyExprOk(a.keyexpr) THEN Err("ValidationError")
       ELSE IF "unreachable" \in {r, c, p} THEN Err("ResolutionError")
       ELSE [tag |-> "Write", keyexpr |-> a.keyexpr, reliability |-> r,
             congestion_control |-> c, priority |-> p,
             express |-> a.express, buffer |-> BufferArg(a.buffer)]

CliArgs_params(a) ==
    IF a.command = "Read" THEN ReadParams(a) ELSE WriteParams(a)

(***************************************************************************)
(* CliArgs::config (utils.rs:135-173).  A configuration maps the keys the  *)
(* code touches to JSON values; insert_json5 parses the text it is given   *)
(* and rejects a key it does not know or a value of the wrong shape.       *)
(***************************************************************************)
ConfigKeys == {"mode", "connect/endpoints", "listen/endpoints",
               "scouting/multicast/enabled"}
WhatAmINames == {"peer", "client", "router"}
Endpoints == {"tcp/h:1"}

JStr(s) == [j |-> "str", v |-> s]
JList(l) == [j |-> "list", v |-> l]
JBool(b) == [j |-> "bool", v |-> b]
JBad == [j |-> "bad"]

\* Config::default(), and what Config::from_file reads from a readable file
ConfigDefault == [k \in ConfigKeys |->
    CASE k = "mode" -> JStr("peer")
      [] k = "scouting/multicast/enabled" -> JBool(TRUE)
      [] OTHER -> JList(<<>>)]
ConfigFiles == [k \in {"zat.json5"} |-> [ConfigDefault EXCEPT !["mode"] = JStr("router")]]

\* the JSON5 text of a value, as tokens: json!(v).to_string()
ToJson(v) ==
    CASE v.j = "str" -> <<"\"", v.v, "\"">>
      [] v.j = "bool" -> <<IF v.v THEN "true" ELSE "false">>
      [] v.j = "list" ->
           <<"[">> \o Concat([i \in 1..Len(v.v) |-> <<"\"", v.v[i], "\"">>]) \o <<"]">>
      [] OTHER -> <<"?">>

RECURSIVE ParseItems(_)
ParseItems(t) ==
    IF t = <<>> THEN <<>>
    ELSE IF Len(t) >= 3 /\ t[1] = "\"" /\ t[3] = "\"" /\ t[2] \notin {"\"", "[", "]"}
         THEN LET rest == ParseItems(SubSeq(t, 4, Len(t)))
              IN IF rest = <<"?">> THEN rest ELSE <<t[2]>> \o rest
    ELSE <<"?">>

\* the JSON5 parser inside insert_json5
FromJson(t) ==
    IF t = <<"true">> THEN JBool(TRUE)
    ELSE IF t = <<"false">> THEN JBool(FALSE)
    ELSE IF Len(t) = 3 /\ t[1] = "\"" /\ t[3] = "\"" THEN JStr(t[2])
    ELSE IF Len(t) >= 2 /\ t[1] = "[" /\ t[Len(t)] = "]"
         THEN LET items == ParseItems(SubSeq(t, 2, Len(t) - 1))
              IN IF items = <<"?">> THEN JBad ELSE JList(items)
    ELSE JBad

ValueOk(key, v) ==
    CASE key = "mode" -> v.j = "str" /\ v.v \in WhatAmINames
      [] key = "scouting/multicast/enabled" -> v.j = "bool"
      [] key \in {"connect/endpoints", "listen/endpoints"} ->
           v.j = "list" /\ \A i \in 1..Len(v.v) : v.v[i] \in Endpoints
      [] OTHER -> FALSE

\* Config::insert_json5(key, text): the new configuration, or an error
InsertJson5(c, key, text) ==
    LET v == FromJson(text)
    IN IF Len(key) = 1 /\ key[1] \in ConfigKeys /\ ValueOk(key[1], v)
       THEN [ok |-> TRUE, cfg |-> [c EXCEPT ![key[1]] = v]]
       ELSE [ok |-> FALSE]

\* str::split_once(':'): <<>> when there is no colon, else <<before, after>>
SplitOnce(e) ==
    IF \A i \in 1..Len(e) : e[i] # ":" THEN <<>>
    ELSE LET i == CHOOSE j \in 1..Len(e) :
                     e[j] = ":" /\ \A k \in 1..(j - 1) : e[k] # ":"
         IN <<SubSeq(e, 1, i - 1), SubSeq(e, i + 1, Len(e))>>

\* eprintln!(...); std::process::exit(-1)
Exit(msg) == [tag |-> "Exit", msg |-> msg]
Cfg(c) == [tag |-> "Config", map |-> c]

\* if cond { config.insert_json5(key, text).unwrap(); }
InsertUnwrap(r, cond, key, text) ==
    IF r.tag # "Config" \/ ~cond THEN r
    ELSE LET x == InsertJson5(r.map, <<key>>, text)
         IN IF x.ok THEN Cfg(x.cfg) ELSE Err("ConfigError")

RECURSIVE ApplyCfgLenient(_, _)
ApplyCfgLenient(r, es) ==
    IF r.tag # "Config" \/ es = <<>> THEN r
    ELSE LET kv == SplitOnce(Head(es))
         IN IF kv = <<>> THEN ApplyCfgLenient(r, Tail(es))
            ELSE LET x == InsertJson5(r.map, kv[1], kv[2])
                 IN IF x.ok THEN ApplyCfgLenient(Cfg(x.cfg), Tail(es))
                    ELSE Exit("could not parse")

\* the loop over self.cfg (utils.rs:161-171)
RECURSIVE ApplyCfg(_, _)
ApplyCfg(r, es) ==
    IF r.tag # "Config" \/ es = <<>> THEN r
    ELSE LET kv == SplitOnce(Head(es))
         IN IF kv = <<>> THEN Exit("expected KEY:VALUE pair")
            ELSE LET x == InsertJson5(r.map, kv[1], kv[2])
                 IN IF x.ok THEN ApplyCfg(Cfg(x.cfg), Tail(es))
                    ELSE Exit("could not parse")

CliArgs_config(ca) ==
    LET c0 == IF ~IsSome(ca.config) THEN Cfg(ConfigDefault)
              ELSE IF Unwrap(ca.config) \in DOMAIN ConfigFiles
                   THEN Cfg(ConfigFiles[Unwrap(ca.config)])
              ELSE Err("ConfigError")
        c1 == InsertUnwrap(c0, IsSome(ca.mode), "mode",
                           ToJson(JStr(IF IsSome(ca.mode) THEN Unwrap(ca.mode) ELSE "")))
        c2 == InsertUnwrap(c1, ca.connect # <<>>, "connect/endpoints",
                           ToJson(JList(ca.connect)))
        c3 == InsertUnwrap(c2, ca.listen # <<>>, "listen/endpoints",
                           ToJson(JList(ca.listen)))
        c4 == InsertUnwrap(c3, ca.no_multicast_scouting,
                           "scouting/multicast/enabled", ToJson(JBool(FALSE)))
    IN ApplyCfg(c4, ca.cfg)

(***************************************************************************)
(* Inputs.                                                                 *)
(***************************************************************************)
Bytes == {1, 2}
Payloads == {<<>>, <<1>>, <<2, 1>>}

KeyExprs == SeqsUpTo(KeChars, MaxKeLen)
KeyExprsSmall == {<<>>, <<"a">>, <<"a", "/", "*">>, <<"a", "*">>}

Buffers == {<<>>} \cup {<<n>> : n \in 0..MaxBuffer}

ReadArgs(K) ==
    [command : {"Read"}, keyexpr : K, ignore_eof : BOOLEAN]

WriteArgs(K, R, C, P) ==
    [command : {"Write"}, keyexpr : K, reliability : R, congestion_control : C,
     priority : P, express : BOOLEAN, buffer : Buffers]

\* every key expression, with options a command line can carry
MainArgs ==
    ReadArgs(KeyExprs)
      \cup WriteArgs(KeyExprs, {<<>>, <<"besteffort">>}, {<<>>}, {<<>>})

\* every value the option fields can hold, in and out of their token sets
AllArgs ==
    ReadArgs(KeyExprsSmall)
      \cup WriteArgs(KeyExprsSmall,
                     {<<>>, <<"reliable">>, <<"besteffort">>, <<"bogus">>},
                     {<<>>, <<"drop">>, <<"block">>, <<"bogus">>},
                     {<<>>} \cup {<<n>> : n \in PriorityTokens \cup {0, 8}})

CfgEntries ==
    { <<"mode", ":", "\"", "client", "\"">>,
      <<"scouting/multicast/enabled", ":", "false">>,
      <<"mode", ":", "client">>,
      <<"mode", "\"", "client", "\"">>,
      <<"colour", ":", "true">> }

NoConfigArgs ==
    [config |-> <<>>, mode |-> <<>>, connect |-> <<>>, listen |-> <<>>,
     no_multicast_scouting |-> FALSE, cfg |-> <<>>]

\* the session options, one of them given at a time
ConfigArgs ==
    {NoConfigArgs}
      \cup {[NoConfigArgs EXCEPT !.config = <<f>>] : f \in {"zat.json5", "missing.json5"}}
      \cup {[NoConfigArgs EXCEPT !.mode = <<"client">>]}
      \cup {[NoConfigArgs EXCEPT !.connect = <<e>>] : e \in {"tcp/h:1", "nowhere"}}
      \cup {[NoConfigArgs EXCEPT !.listen = <<e>>] : e \in {"tcp/h:1", "nowhere"}}
      \cup {[NoConfigArgs EXCEPT !.no_multicast_scouting = TRUE]}
      \cup {[NoConfigArgs EXCEPT !.cfg = es] : es \in SeqsUpTo(CfgEntries, MaxCfg)}

(***************************************************************************)
(* The process.                                                            *)
(***************************************************************************)
PanicExitCode == 101    \* exit status of a Rust process whose main thread panicked
CfgExitCode == 255      \* std::process::exit(-1)
FatalExitCode == 1      \* exit status of a fatal error reported by main

Unset == [tag |-> "Unset"]

Init ==
    /\ pc = "params"
    /\ args = Unset
    /\ params = Unset
    /\ cfgargs = Unset
    /\ config = Unset
    /\ outcome = "Running"
    /\ exitCode = 0
    /\ stderr = <<>>
    /\ sessionOps = <<>>
    /\ eof = FALSE
    /\ consumed = <<>>
    /\ buffer = <<>>
    /\ nread = 0
    /\ reads = 0
    /\ readFailed = FALSE
    /\ pubCalls = <<>>
    /\ events = <<>>
    /\ subState = "Idle"
    /\ stdout = <<>>

\* the process ends: fatal conditions report a message and a non-zero status
Terminate(kind, code, msg) ==
    /\ pc' = "exit"
    /\ outcome' = kind
    /\ exitCode' = code
    /\ stderr' = IF msg = "" THEN stderr ELSE Append(stderr, msg)

bridgeVars == <<eof, consumed, buffer, nread, reads, readFailed, pubCalls,
                events, subState, stdout>>

\* let params = args.params();
ParamsStep(A) ==
    /\ pc = "params"
    /\ \E a \in A :
         LET r == CliArgs_params(a)
         IN /\ args' = a
            /\ params' = r
            /\ IF IsErr(r)
               THEN Terminate(r.kind, PanicExitCode, r.kind)
               ELSE /\ pc' = "config"
                    /\ UNCHANGED <<outcome, exitCode, stderr>>
    /\ UNCHANGED <<cfgargs, config, sessionOps, bridgeVars>>

\* let config = args.config();
ConfigStep(A) ==
    /\ pc = "config"
    /\ \E ca \in A :
         LET r == CliArgs_config(ca)
         IN /\ cfgargs' = ca
            /\ config' = r
            /\ CASE r.tag = "Panic" -> Terminate("ConfigError", PanicExitCode, r.kind)
                 [] r.tag = "Exit" -> Terminate("ConfigError", CfgExitCode, r.msg)
                 [] OTHER -> /\ pc' = "open"
                             /\ UNCHANGED <<outcome, exitCode, stderr>>
    /\ UNCHANGED <<args, params, sessionOps, bridgeVars>>

cliVars == <<args, params, cfgargs, config>>

\* openSession(sessionConfig) -> Session | ConnectError; the bridge matching
\* the tag of Params then runs
OpenSession ==
    /\ pc = "open"
    /\ sessionOps' = Append(sessionOps, "open")
    /\ \/ /\ pc' = IF params.tag = "Write" THEN "read_stdin" ELSE "subscribe"
          /\ UNCHANGED <<outcome, exitCode, stderr>>
       \/ Terminate("ConnectError", FatalExitCode, "ConnectError")
    /\ UNCHANGED <<cliVars, bridgeVars>>

(***************************************************************************)
(* Publish Bridge (spec.md 4.3).  Standard input is fed in chunks of the   *)
(* buffer size: a read fills the buffer while input remains and returns    *)
(* fewer bytes only when the input ends there.                             *)
(***************************************************************************)
Qos(p) == [reliability |-> p.reliability,
           congestion_control |-> p.congestion_control,
           priority |-> p.priority, express |-> p.express]

\* the buffer after a read stored d at its start
Fill(buf, d) == d \o SubSeq(buf, Len(d) + 1, Len(buf))

\* the bytes handed to publish: those the last read returned
Chunk(buf, n) == SubSeq(buf, 1, n)

\* the reads standard input can answer with, for a buffer of c bytes
ReadResults(c) ==
    IF eof THEN {<<>>}
    ELSE SeqsUpTo(Bytes, Min(c, MaxInputLen - Len(consumed)))

ReadStdin ==
    /\ pc = "read_stdin"
    /\ reads' = reads + 1
    /\ \/ \E d \in ReadResults(params.buffer) :
            /\ nread' = Len(d)
            /\ buffer' = Fill(buffer, d)
            /\ consumed' = consumed \o d
            /\ eof' = (eof \/ Len(d) < params.buffer)
            /\ readFailed' = FALSE
            /\ IF Len(d) = 0
               THEN Terminate("Clean", 0, "")
               ELSE /\ pc' = "publish"
                    /\ UNCHANGED <<outcome, exitCode, stderr>>
       \/ /\ readFailed' = TRUE
          /\ Terminate("Clean", 0, "")
          /\ UNCHANGED <<nread, buffer, consumed, eof>>
    /\ UNCHANGED <<cliVars, sessionOps, pubCalls, events, subState, stdout>>

AfterPublishRetry(ok) == IF ok THEN "read_stdin" ELSE "publish"

\* where the bridge goes once publish returned: on to the next read, or out
AfterPublish(ok) == IF ok THEN "read_stdin" ELSE "exit"

\* Session.publish(topic, bytes, qos) -> Ok | PublishError
Publish ==
    /\ pc = "publish"
    /\ sessionOps' = Append(sessionOps, "publish")
    /\ \E ok \in BOOLEAN :
         /\ pubCalls' = Append(pubCalls,
                [offset |-> Len(consumed) - nread, topic |-> params.keyexpr,
                 payload |-> Chunk(buffer, nread), qos |-> Qos(params),
                 ok |-> ok])
         /\ IF AfterPublish(ok) = "exit"
            THEN Terminate("PublishError", FatalExitCode, "PublishError")
            ELSE /\ pc' = AfterPublish(ok)
                 /\ UNCHANGED <<outcome, exitCode, stderr>>
    /\ UNCHANGED <<cliVars, eof, consumed, buffer, nread, reads, readFailed,
                   events, subState, stdout>>

(***************************************************************************)
(* Subscribe Bridge (spec.md 4.4).                                         *)
(***************************************************************************)
Msg(p) == [kind |-> "msg", payload |-> p]
EndOfStream == [kind |-> "eos", payload |-> <<>>]
TransportError == [kind |-> "err", payload |-> <<>>]

\* Session.subscribe(topic) -> MessageStream
Subscribe ==
    /\ pc = "subscribe"
    /\ sessionOps' = Append(sessionOps, "subscribe")
    /\ subState' = "Listening"
    /\ pc' = "listening"
    /\ UNCHANGED <<cliVars, outcome, exitCode, stderr, eof, consumed, buffer,
                   nread, reads, readFailed, pubCalls, events, stdout>>

WritePayloadLine(out, p) == out \o p \o <<10>>

\* the bytes standard output holds after the payload was written and flushed
WritePayload(out, p) == out \o p

\* the state after an end-of-stream signal
AfterEndOfStream(continueOnEndOfStream) ==
    IF continueOnEndOfStream THEN "Listening" ELSE "Terminated"

OnMessage ==
    /\ pc = "listening"
    /\ Len(events) < MaxEvents
    /\ \E p \in Payloads :
         /\ events' = Append(events, Msg(p))
         /\ stdout' = WritePayload(stdout, p)
    /\ UNCHANGED <<cliVars, pc, outcome, exitCode, stderr, sessionOps, eof,
                   consumed, buffer, nread, reads, readFailed, pubCalls,
                   subState>>

OnEndOfStream ==
    /\ pc = "listening"
    /\ Len(events) < MaxEvents
    /\ events' = Append(events, EndOfStream)
    /\ subState' = AfterEndOfStream(params.ignore_eof)
    /\ IF subState' = "Terminated"
       THEN Terminate("Clean", 0, "")
       ELSE UNCHANGED <<pc, outcome, exitCode, stderr>>
    /\ UNCHANGED <<cliVars, sessionOps, eof, consumed, buffer, nread, reads,
                   readFailed, pubCalls, stdout>>

OnTransportError ==
    /\ pc = "listening"
    /\ Len(events) < MaxEvents
    /\ events' = Append(events, TransportError)
    /\ subState' = "Terminated"
    /\ Terminate("SubscribeStreamError", FatalExitCode, "SubscribeStreamError")
    /\ UNCHANGED <<cliVars, sessionOps, eof, consumed, buffer, nread, reads,
                   readFailed, pubCalls, stdout>>

Next ==
    \/ ParamsStep(MainArgs)
    \/ ConfigStep(ConfigArgs)
    \/ OpenSession
    \/ ReadStdin
    \/ Publish
    \/ Subscribe
    \/ OnMessage
    \/ OnEndOfStream
    \/ OnTransportError

Spec == Init /\ [][Next]_vars

\* CliArgs::params alone, over every value its option fields can hold
NextParams == ParamsStep(AllArgs)

SpecParams == Init /\ [][NextParams]_vars

(***************************************************************************)
(* Properties.                                                             *)
(***************************************************************************)
Last(q) == q[Len(q)]

CeilDiv(a, b) == (a + b - 1) \div b

\* the payloads of a sequence of records, in order
PayloadsOf(q) == [i \in 1..Len(q) |-> q[i].payload]

IsMsg(e) == e.kind = "msg"

\* the command line ran in this mode and params() has been called
Started(mode) == pc # "params" /\ args.command = mode

\* the chunk size the command line asked for
AskedBuffer == IF args.buffer = <<>> THEN DefaultBuffer ELSE args.buffer[1]

\* C1: when the Publish Bridge has run to the end of a non-empty input with
\* a chunk size C >= 1 and no read or publish error, it has published
\* ceil(len(input)/C) messages and their payloads, concatenated in publish
\* order, are the input; no payload is longer than what a read returned.
C1_Chunking ==
    (/\ Started("Write")
     /\ pc = "exit" /\ outcome = "Clean" /\ ~readFailed
     /\ consumed # <<>> /\ AskedBuffer >= 1)
    => /\ Len(pubCalls) = CeilDiv(Len(consumed), AskedBuffer)
       /\ Concat(PayloadsOf(pubCalls)) = consumed
       /\ \A i \in 1..Len(pubCalls) :
            /\ pubCalls[i].ok
            /\ pubCalls[i].payload =
                 SubSeq(consumed, pubCalls[i].offset + 1,
                        Min(pubCalls[i].offset + AskedBuffer, Len(consumed)))

\* an input of three bytes was published in chunks of two: a full chunk and
\* a shorter last one
C1_Witness ==
    /\ Started("Write") /\ pc = "exit" /\ outcome = "Clean"
    /\ AskedBuffer = 2 /\ Len(consumed) = 3 /\ Len(pubCalls) = 2
    /\ Len(pubCalls[1].payload) = 2 /\ Len(pubCalls[2].payload) = 1

\* C2: every chunk is passed to publish at most once, and a publish call
\* that returned an error is the last one: the bridge has stopped with a
\* PublishError outcome and a non-zero status, without retrying the chunk,
\* skipping it or publishing a later one.
C2_PublishFatalAtMostOnce ==
    /\ \A i, j \in 1..Len(pubCalls) :
         i < j => pubCalls[i].offset + Len(pubCalls[i].payload) <= pubCalls[j].offset
    /\ \A i \in 1..Len(pubCalls) :
         ~pubCalls[i].ok =>
            /\ i = Len(pubCalls)
            /\ pc = "exit" /\ outcome = "PublishError" /\ exitCode # 0
            /\ reads = i

\* the second publish call failed after the first succeeded
C2_Witness ==
    /\ Len(pubCalls) = 2 /\ pubCalls[1].ok /\ ~pubCalls[2].ok
    /\ pc = "exit" /\ outcome = "PublishError"

\* C3: in Read mode standard output holds exactly the payloads of the
\* messages delivered so far, concatenated in arrival order: none dropped,
\* reordered, duplicated or separated by framing.
C3_OutputFidelity ==
    params.tag = "Read" =>
        stdout = Concat(PayloadsOf(SelectSeq(events, IsMsg)))

\* two messages with different non-empty payloads have been delivered
C3_Witness ==
    /\ params.tag = "Read"
    /\ events = <<Msg(<<2, 1>>), Msg(<<1>>)>>
    /\ stdout = <<2, 1, 1>>

\* C4: with ignore_eof set, an end-of-stream signal leaves the bridge in
\* Listening, the bridge terminates only on a transport error, and the
\* payload of every message, also of one that arrives after an
\* end-of-stream signal, is written to standard output.
C4_ContinueOnEndOfStream ==
    (Started("Read") /\ args.ignore_eof) =>
        /\ (events # <<>> /\ Last(events).kind = "eos") =>
              (subState = "Listening" /\ pc = "listening")
        /\ (pc = "exit" /\ subState = "Terminated") =>
              (Last(events).kind = "err" /\ outcome = "SubscribeStreamError")
        /\ \A i \in 1..Len(events) :
              IsMsg(events[i]) =>
                 \E k \in 0..Len(stdout) :
                    /\ k = Len(Concat(PayloadsOf(SelectSeq(SubSeq(events, 1, i), IsMsg))))
                    /\ SubSeq(stdout, k - Len(events[i].payload) + 1, k) = events[i].payload

\* a message arrived after an end-of-stream signal and was written
C4_Witness ==
    /\ Started("Read") /\ args.ignore_eof
    /\ events = <<EndOfStream, Msg(<<1>>)>>
    /\ stdout = <<1>> /\ subState = "Listening"

\* C5: without ignore_eof, the first end-of-stream signal is the last thing
\* the bridge handles: it is Terminated with a clean outcome and status 0,
\* and standard output holds what the messages before the signal carried,
\* so nothing at all when the signal came first.
C5_StopOnEndOfStream ==
    (Started("Read") /\ ~args.ignore_eof) =>
        \A i \in 1..Len(events) :
            events[i].kind = "eos" =>
               /\ i = Len(events)
               /\ pc = "exit" /\ subState = "Terminated"
               /\ outcome = "Clean" /\ exitCode = 0
               /\ stdout = Concat(PayloadsOf(SubSeq(events, 1, i - 1)))
               /\ (i = 1 => stdout = <<>>)
               /\ ~ENABLED Next

\* the end-of-stream signal came before any message
C5_Witness ==
    /\ Started("Read") /\ ~args.ignore_eof
    /\ events = <<EndOfStream>>
    /\ pc = "exit" /\ exitCode = 0 /\ stdout = <<>>

\* C6: once params() has been called with a key expression that violates
\* the grammar, in either mode, the process has ended with a
\* ValidationError reported on stderr and a non-zero status, and no session
\* operation has been attempted.
C6_ValidationGate ==
    (pc # "params" /\ ~KeyExprOk(args.keyexpr)) =>
        /\ pc = "exit" /\ outcome = "ValidationError" /\ exitCode # 0
        /\ params.tag = "Panic"
        /\ stderr # <<>>
        /\ sessionOps = <<>>

\* the empty key expression, and a star inside a chunk, were rejected
C6_Witness ==
    /\ pc = "exit" /\ outcome = "ValidationError"
    /\ args.keyexpr \in {<<>>, <<"a", "*">>}

\* C7: with a well-formed key expression in Write mode, resolution yields a
\* QoS value whenever every given token is in its closed set, and ends in
\* ResolutionError with a non-zero status whenever one is not.
C7_QosResolution ==
    (Started("Write") /\ KeyExprOk(args.keyexpr)) =>
        IF /\ \A i \in 1..Len(args.reliability) :
                 args.reliability[i] \in ReliabilityTokens
           /\ \A i \in 1..Len(args.congestion_control) :
                 args.congestion_control[i] \in CongestionControlTokens
           /\ \A i \in 1..Len(args.priority) : args.priority[i] \in PriorityTokens
        THEN /\ params.tag = "Write"
             /\ params.reliability \in {"Reliable", "BestEffort"}
             /\ params.congestion_control \in {"Drop", "Block"}
             /\ \E n \in PriorityTokens : PriorityNames[n] = params.priority
             /\ params.express = args.express
        ELSE /\ params.tag = "Panic"
             /\ pc = "exit" /\ outcome = "ResolutionError" /\ exitCode # 0

\* a reliability token outside the set ended the run in ResolutionError
C7_Witness ==
    /\ Started("Write") /\ KeyExprOk(args.keyexpr)
    /\ args.reliability = <<"bogus">>
    /\ args.congestion_control = <<"drop">> /\ args.priority = <<7>>
    /\ outcome = "ResolutionError"

\* C8: Write mode started with a buffer of 0 ends in an error outcome before
\* any read or publish.
C8_ZeroBufferRejected ==
    (Started("Write") /\ args.buffer = <<0>>) =>
        /\ params.tag = "Panic"
        /\ pc = "exit" /\ outcome \notin {"Running", "Clean"} /\ exitCode # 0
        /\ reads = 0 /\ pubCalls = <<>>

FatalOutcomes == {"ValidationError", "ResolutionError", "ConfigError",
                  "ConnectError", "PublishError", "SubscribeStreamError"}

ParamsMapping(dflt) ==
    (pc # "params" /\ params.tag # "Panic") =>
        /\ params.tag = args.command
        /\ params.keyexpr = args.keyexpr
        /\ params.tag = "Read" => params.ignore_eof = args.ignore_eof
        /\ params.tag = "Write" =>
             /\ params.reliability =
                  CASE args.reliability = <<>> -> dflt
                    [] args.reliability = <<"reliable">> -> "Reliable"
                    [] args.reliability = <<"besteffort">> -> "BestEffort"
             /\ args.congestion_control = <<"drop">> => params.congestion_control = "Drop"
             /\ args.congestion_control = <<"block">> => params.congestion_control = "Block"
             /\ PriorityLevel(params.priority) =
                  IF args.priority = <<>> THEN 5 ELSE args.priority[1]
             /\ params.express = args.express
             /\ params.buffer = IF args.buffer = <<>> THEN 32768 ELSE args.buffer[1]

\* C10 as stated: an absent reliability resolves to BestEffort.
C10_AsStated == ParamsMapping("BestEffort")

\* C10 as amended: params() returns Write exactly for the Write command and
\* Read exactly for the Read command; each present token maps to the value
\* of the same name, priority n to level n; an absent reliability resolves
\* to Reliable, an absent priority to Data (level 5), an absent buffer to
\* 32768; express, buffer and ignore_eof are carried through unchanged.
C10_ParamsMapping == ParamsMapping("Reliable")

\* a Write command with no QoS option and one with every option were resolved
C10_Witness ==
    /\ pc # "params" /\ params.tag = "Write"
    /\ args.reliability = <<>> /\ args.priority = <<>> /\ args.buffer = <<>>
    /\ args.congestion_control = <<"block">> /\ args.express
    /\ params.reliability = "Reliable" /\ params.priority = "Data"

=============================================================================
